---- MODULE Spec2Model ----
(***************************************************************************)
(* Model of LASKO/scripts/compose_lasko_icon.py.                           *)
(*                                                                         *)
(* Two state machines share the module:                                    *)
(*   Spec         remove_outer_white_only, one loop iteration per step, on *)
(*                every small RGBA image over a three-colour palette;      *)
(*   SpecCompose  compose, one statement per step, with the glyph reduced  *)
(*                to its size and the scale computed in binary64.          *)
(***************************************************************************)
EXTENDS Integers, Sequences, FiniteSets, TLC

VARIABLES
    \* ---- remove_outer_white_only ----
    w0, h0,      \* glyph.size
    px,          \* the pixel buffer: [x, y] -> <<r, g, b, a>>
    visited,     \* visited[y][x], here keyed [x, y]
    q,           \* the deque of coordinates
    pc,          \* position in the function
    i,           \* the running index of the current for loop
    orig,        \* history: the image handed to the first call
    prev,        \* history: the image handed to the current call
    enq,         \* history: how often each coordinate was appended to q
    proc,        \* history: how often each coordinate was popped and written
    oob,         \* history: a pixel access outside the image was attempted
    pass,        \* history: number of the current call
    \* ---- compose ----
    cpc,         \* position in compose
    glyphExists, \* os.path.isfile(GLYPH_PATH)
    log,         \* the steps compose has performed, in order
    err,         \* the exception that ended compose, or "none"
    glyph,       \* glyph.size, <<0, 0>> before the glyph is loaded
    gw, gh,      \* the locals gw, gh (size before the resize)
    s,           \* the local s (binary64), or NoFloat
    pos          \* the paste position <<x, y>>

fillVars == <<w0, h0, px, visited, q, pc, i, orig, prev, enq, proc, oob, pass>>
composeVars == <<cpc, glyphExists, log, err, glyph, gw, gh, s, pos>>
vars == <<fillVars, composeVars>>

----------------------------------------------------------------------------
(* Bounds of the model *)

\* the longest side of an input image of remove_outer_white_only
MaxSide == 3
\* the most pixels of an input image of remove_outer_white_only
MaxPixels == 9
\* how many times remove_outer_white_only is applied in a row
MaxPasses == 2
\* the longest side of the glyph file compose loads
MaxGlyph == 56

----------------------------------------------------------------------------
(* Pixels and images *)

\* white at the threshold on red, barely opaque
PWhite == <<245, 250, 255, 1>>
\* white but fully transparent
PClear == <<255, 255, 255, 0>>
\* opaque, one below the threshold on red
PDark == <<244, 255, 255, 255>>

Palette == {PWhite, PClear, PDark}

Sizes == {sz \in (0..MaxSide) \X (0..MaxSide) : sz[1] * sz[2] <= MaxPixels}

Coords(w, h) == (0..(w - 1)) \X (0..(h - 1))

TH == 245

\* a faulty variant of IsWhitePixel that forgets the opacity test
IsWhitePixelNoAlpha(p) == p[1] >= TH /\ p[2] >= TH /\ p[3] >= TH

\* a faulty variant of IsWhitePixel that accepts one shade darker
IsWhitePixelDarker(p) ==
    p[4] > 0 /\ p[1] >= TH - 1 /\ p[2] >= TH - 1 /\ p[3] >= TH - 1

\* is_white's test of the pixel it read
IsWhitePixel(p) == p[4] > 0 /\ p[1] >= TH /\ p[2] >= TH /\ p[3] >= TH

\* PixelAccess indexing: a negative index counts from the far edge
Wrap(k, n) == IF k < 0 THEN k + n ELSE k

\* px[x, y] raises IndexError unless the wrapped index lies in the image
Readable(c) ==
    /\ 0 <= Wrap(c[1], w0) /\ Wrap(c[1], w0) < w0
    /\ 0 <= Wrap(c[2], h0) /\ Wrap(c[2], h0) < h0

At(img, c) == img[<<Wrap(c[1], w0), Wrap(c[2], h0)>>]

\* is_white(x, y) on the current buffer
is_white(img, c) == IsWhitePixel(At(img, c))

\* the range check of the neighbour expansion
InBounds(c) == 0 <= c[1] /\ c[1] < w0 /\ 0 <= c[2] /\ c[2] < h0

\* px[x, y] = (r, g, b, 0)
ClearAlpha(p) == <<p[1], p[2], p[3], 0>>

\* a faulty variant of SeedRowTargets that forgets the bottom row
SeedRowTargetsTopOnly(x) == << <<x, 0>> >>

\* the two pixels the first seeding loop tests at column x
SeedRowTargets(x) == << <<x, 0>>, <<x, h0 - 1>> >>

\* the two pixels the second seeding loop tests at row y
SeedColTargets(y) == << <<0, y>>, <<w0 - 1, y>> >>

\* a faulty variant of Neighbours that also walks the diagonals
NeighboursDiagonal(c) ==
    << <<c[1] - 1, c[2]>>, <<c[1] + 1, c[2]>>, <<c[1], c[2] - 1>>,
       <<c[1], c[2] + 1>>, <<c[1] - 1, c[2] - 1>>, <<c[1] + 1, c[2] - 1>>,
       <<c[1] - 1, c[2] + 1>>, <<c[1] + 1, c[2] + 1>> >>

\* a faulty variant of Neighbours that forgets the pixel above
NeighboursNoUp(c) ==
    << <<c[1] - 1, c[2]>>, <<c[1] + 1, c[2]>>, <<c[1], c[2] + 1>> >>

\* ((x-1,y),(x+1,y),(x,y-1),(x,y+1))
Neighbours(c) ==
    << <<c[1] - 1, c[2]>>, <<c[1] + 1, c[2]>>, <<c[1], c[2] - 1>>,
       <<c[1], c[2] + 1>> >>

----------------------------------------------------------------------------
(* remove_outer_white_only *)

\* the part of the state the seeding and the expansion update
Work == [q |-> q, visited |-> visited, enq |-> enq, raised |-> FALSE, oob |-> oob]

\* if is_white(x, y): q.append((x, y)); visited[y][x] = True
SeedOne(st, img, c) ==
    IF st.raised THEN st
    ELSE IF ~Readable(c) THEN [st EXCEPT !.raised = TRUE, !.oob = TRUE]
    ELSE LET t == [st EXCEPT !.oob = st.oob \/ ~InBounds(c)]
             k == <<Wrap(c[1], w0), Wrap(c[2], h0)>>
         IN  IF is_white(img, c)
             THEN [t EXCEPT !.q = Append(t.q, c),
                            !.visited = [t.visited EXCEPT ![k] = TRUE],
                            !.enq = [t.enq EXCEPT ![k] = @ + 1]]
             ELSE t

RECURSIVE SeedAll(_, _, _, _)
SeedAll(st, img, cs, k) ==
    IF k > Len(cs) THEN st ELSE SeedAll(SeedOne(st, img, cs[k]), img, cs, k + 1)

\* if 0 <= nx < w0 and 0 <= ny < h0 and not visited[ny][nx]:
\*     if is_white(nx, ny): visited[ny][nx] = True; q.append((nx, ny))
ExpandOne(st, img, c) ==
    IF InBounds(c) /\ ~st.visited[c] /\ is_white(img, c)
    THEN [st EXCEPT !.q = Append(st.q, c),
                    !.visited = [st.visited EXCEPT ![c] = TRUE],
                    !.enq = [st.enq EXCEPT ![c] = @ + 1]]
    ELSE st

RECURSIVE ExpandAll(_, _, _, _)
ExpandAll(st, img, cs, k) ==
    IF k > Len(cs) THEN st
    ELSE ExpandAll(ExpandOne(st, img, cs[k]), img, cs, k + 1)

ComposeIdle ==
    /\ cpc = "idle" /\ glyphExists = FALSE /\ log = <<>> /\ err = "none"
    /\ glyph = <<0, 0>> /\ gw = 0 /\ gh = 0 /\ s = [m |-> <<>>, e |-> 0]
    /\ pos = <<0, 0>>

\* the call: px = glyph.load(), w0, h0, visited, q
FillInit ==
    /\ \E sz \in Sizes :
          /\ w0 = sz[1] /\ h0 = sz[2]
          /\ px \in [Coords(sz[1], sz[2]) -> Palette]
          /\ visited = [c \in Coords(sz[1], sz[2]) |-> FALSE]
          /\ enq = [c \in Coords(sz[1], sz[2]) |-> 0]
          /\ proc = [c \in Coords(sz[1], sz[2]) |-> 0]
    /\ orig = px /\ prev = px
    /\ q = <<>> /\ pc = "seed_x" /\ i = 0 /\ oob = FALSE /\ pass = 1

Init == FillInit /\ ComposeIdle

\* one iteration of: for x in range(w0)
SeedX ==
    /\ pc = "seed_x" /\ i < w0
    /\ LET st == SeedAll(Work, px, SeedRowTargets(i), 1)
       IN  /\ q' = st.q /\ visited' = st.visited /\ enq' = st.enq /\ oob' = st.oob
           /\ pc' = IF st.raised THEN "error" ELSE "seed_x"
    /\ i' = i + 1
    /\ UNCHANGED <<w0, h0, px, orig, prev, proc, pass, composeVars>>

\* range(w0) is exhausted
SeedXDone ==
    /\ pc = "seed_x" /\ i >= w0
    /\ pc' = "seed_y" /\ i' = 0
    /\ UNCHANGED <<w0, h0, px, visited, q, orig, prev, enq, proc, oob, pass, composeVars>>

\* one iteration of: for y in range(h0)
SeedY ==
    /\ pc = "seed_y" /\ i < h0
    /\ LET st == SeedAll(Work, px, SeedColTargets(i), 1)
       IN  /\ q' = st.q /\ visited' = st.visited /\ enq' = st.enq /\ oob' = st.oob
           /\ pc' = IF st.raised THEN "error" ELSE "seed_y"
    /\ i' = i + 1
    /\ UNCHANGED <<w0, h0, px, orig, prev, proc, pass, composeVars>>

\* range(h0) is exhausted
SeedYDone ==
    /\ pc = "seed_y" /\ i >= h0
    /\ pc' = "bfs" /\ i' = 0
    /\ UNCHANGED <<w0, h0, px, visited, q, orig, prev, enq, proc, oob, pass, composeVars>>

\* one iteration of: while q
BfsStep ==
    /\ pc = "bfs" /\ q /= <<>>
    /\ LET c == Head(q)
           img == [px EXCEPT ![c] = ClearAlpha(px[c])]
           st == ExpandAll([Work EXCEPT !.q = Tail(q)], img, Neighbours(c), 1)
       IN  /\ px' = img
           /\ proc' = [proc EXCEPT ![c] = @ + 1]
           /\ q' = st.q /\ visited' = st.visited /\ enq' = st.enq
    /\ UNCHANGED <<w0, h0, pc, i, orig, prev, oob, pass, composeVars>>

\* q is empty: return glyph
Return ==
    /\ pc = "bfs" /\ q = <<>>
    /\ pc' = "done"
    /\ UNCHANGED <<w0, h0, px, visited, q, i, orig, prev, enq, proc, oob, pass, composeVars>>

\* remove_outer_white_only applied to the image it returned
CallAgain ==
    /\ pc = "done" /\ pass < MaxPasses
    /\ pass' = pass + 1
    /\ prev' = px
    /\ visited' = [c \in Coords(w0, h0) |-> FALSE]
    /\ enq' = [c \in Coords(w0, h0) |-> 0]
    /\ proc' = [c \in Coords(w0, h0) |-> 0]
    /\ q' = <<>> /\ pc' = "seed_x" /\ i' = 0
    /\ UNCHANGED <<w0, h0, px, orig, oob, composeVars>>

Next == SeedX \/ SeedXDone \/ SeedY \/ SeedYDone \/ BfsStep \/ Return \/ CallAgain

Spec == Init /\ [][Next]_vars

----------------------------------------------------------------------------
(* binary64 arithmetic, as far as compose uses it.  A positive float is    *)
(* [m |-> its 53 significant bits, most significant first, e |-> the       *)
(* exponent of the last bit]: its value is ValOf(m) * 2^e.                 *)

MantBits == 53

NoFloat == [m |-> <<>>, e |-> 0]

Max(a, b) == IF a >= b THEN a ELSE b

RECURSIVE Pow2(_)
Pow2(n) == IF n = 0 THEN 1 ELSE 2 * Pow2(n - 1)

\* the number of binary digits of n < 2^30
BitLen(n) == CHOOSE L \in 0..30 : Pow2(L) > n /\ (L = 0 \/ Pow2(L - 1) <= n)

\* the last len binary digits of n, most significant first
FixedBits(n, len) == [k \in 1..len |-> (n \div Pow2(len - k)) % 2]

\* the binary digits of n, most significant first, none for 0
BitsOf(n) == FixedBits(n, BitLen(n))

\* the value of at most 30 bits
RECURSIVE ValOf(_)
ValOf(b) ==
    IF b = <<>> THEN 0 ELSE 2 * ValOf(SubSeq(b, 1, Len(b) - 1)) + b[Len(b)]

Zeros(n) == [k \in 1..n |-> 0]

\* b + 1, one bit longer when every bit of b is set
Incr(b) ==
    IF \A k \in 1..Len(b) : b[k] = 1 THEN <<1>> \o Zeros(Len(b))
    ELSE LET z == CHOOSE k \in 1..Len(b) :
                      b[k] = 0 /\ \A j \in (k + 1)..Len(b) : b[j] = 1
         IN  [k \in 1..Len(b) |-> IF k < z THEN b[k] ELSE IF k = z THEN 1 ELSE 0]

\* round to nearest, ties to even: bits (leading bit set) with last-bit
\* exponent e, and sticky telling that a non-zero remainder follows them
RoundBits(bits, e, sticky) ==
    LET L == Len(bits) IN
    IF L <= MantBits
    THEN [m |-> bits \o Zeros(MantBits - L), e |-> e - (MantBits - L)]
    ELSE LET m0 == SubSeq(bits, 1, MantBits)
             rest == sticky \/ \E k \in (MantBits + 2)..L : bits[k] = 1
             up == bits[MantBits + 1] = 1 /\ (rest \/ m0[MantBits] = 1)
             m1 == IF up THEN Incr(m0) ELSE m0
             e1 == e + (L - MantBits)
         IN  IF Len(m1) > MantBits
             THEN [m |-> SubSeq(m1, 1, MantBits), e |-> e1 + 1]
             ELSE [m |-> m1, e |-> e1]

\* 2^k mod b, by squaring
RECURSIVE PowMod2(_, _)
PowMod2(k, b) ==
    IF k = 0 THEN 1 % b
    ELSE LET h == PowMod2(k \div 2, b)
         IN  (h * h * (IF k % 2 = 1 THEN 2 ELSE 1)) % b

\* the remainder of r * 2^j by b, for r < b
RemAfter(r, b, j) == (r * PowMod2(j, b)) % b

\* the j-th binary digit after the point of r / b, for r < b
FracBit(r, b, j) == (2 * RemAfter(r, b, j - 1)) \div b

\* a / b for ints 1 <= a, b < 2^11: the quotient's first 54 significant
\* bits by long division, then rounded
FDiv(a, b) ==
    LET q0 == a \div b
        r0 == a % b
        L0 == BitLen(q0)
        \* the fraction digits before the first significant one
        z == IF q0 > 0 \/ r0 = 0 THEN 0
             ELSE (CHOOSE j \in 1..12 :
                      FracBit(r0, b, j) = 1 /\ \A k \in 1..(j - 1) : FracBit(r0, b, k) = 0) - 1
        n == z + MantBits + 1 - L0
        frac == [k \in 1..(n - z) |-> FracBit(r0, b, z + k)]
    IN  RoundBits(BitsOf(q0) \o frac, -n, RemAfter(r0, b, n) # 0)

\* the exact product of g < 2^11 with the 53 bits b, computed on the
\* groups b[1..14], b[15..27], b[28..40], b[41..53] with carries of 2^13
MulBits(b, g) ==
    LET t4 == g * ValOf(SubSeq(b, 41, 53))
        t3 == g * ValOf(SubSeq(b, 28, 40)) + t4 \div Pow2(13)
        t2 == g * ValOf(SubSeq(b, 15, 27)) + t3 \div Pow2(13)
        t1 == g * ValOf(SubSeq(b, 1, 14)) + t2 \div Pow2(13)
    IN  BitsOf(t1) \o FixedBits(t2 % Pow2(13), 13)
            \o FixedBits(t3 % Pow2(13), 13) \o FixedBits(t4 % Pow2(13), 13)

\* g * f for an int 1 <= g < 2^11: the correctly rounded product
FMulInt(g, f) == RoundBits(MulBits(f.m, g), f.e, FALSE)

BitsLess(a, b) ==
    \E k \in 1..Len(a) : a[k] < b[k] /\ \A j \in 1..(k - 1) : a[j] = b[j]

FLess(a, b) == a.e < b.e \/ (a.e = b.e /\ BitsLess(a.m, b.m))

\* min(a, b): b only when it is less than a
FMin(a, b) == IF FLess(b, a) THEN b ELSE a

\* int(f): truncation
FInt(f) ==
    IF f.e >= 0 THEN ValOf(f.m) * Pow2(f.e)
    ELSE IF MantBits + f.e <= 0 THEN 0
    ELSE ValOf(SubSeq(f.m, 1, MantBits + f.e))

----------------------------------------------------------------------------
(* compose *)

W == 1024
H == 1024

\* the literal 0.06
PadFraction == FDiv(6, 100)

\* pad = int(W*0.06)
pad == FInt(FMulInt(W, PadFraction))

max_w == W - 2 * pad
max_h == H - 2 * pad

\* the sizes of the glyph file
GlyphSizes == (1..MaxGlyph) \X (1..MaxGlyph)

\* a faulty variant of AfterCheck that never tests the path
AfterCheckNoTest(exists) == "background"

\* if not os.path.isfile(GLYPH_PATH): raise FileNotFoundError
AfterCheck(exists) == IF exists THEN "background" ELSE "raised"

\* the sizes glyph.crop(bbox) can have: the bounding box of the opaque
\* pixels, or the whole image when there is none
CropSizes(sz) == (1..sz[1]) \X (1..sz[2])

\* a faulty variant of ScaleFactor that fits the width only
ScaleFactorWidthOnly(w, h) == FDiv(max_w, w)

\* s = min(max_w/gw, max_h/gh)
ScaleFactor(w, h) == FMin(FDiv(max_w, w), FDiv(max_h, h))

\* max(1, int(g*s))
ResizeDim(g, f) == Max(1, FInt(FMulInt(g, f)))

\* a faulty variant of PasteOffset that forgets to halve
PasteOffsetNoHalf(total, size) == total - size

\* (W - glyph.size[0]) // 2
PasteOffset(total, size) == (total - size) \div 2

FillIdle ==
    /\ w0 = 0 /\ h0 = 0 /\ px = <<>> /\ visited = <<>> /\ q = <<>>
    /\ pc = "idle" /\ i = 0 /\ orig = <<>> /\ prev = <<>>
    /\ enq = <<>> /\ proc = <<>> /\ oob = FALSE /\ pass = 0

ComposeInit ==
    /\ cpc = "start" /\ glyphExists \in BOOLEAN /\ log = <<>> /\ err = "none"
    /\ glyph = <<0, 0>> /\ gw = 0 /\ gh = 0 /\ s = NoFloat /\ pos = <<0, 0>>

InitCompose == ComposeInit /\ FillIdle

CheckGlyph ==
    /\ cpc = "start"
    /\ cpc' = AfterCheck(glyphExists)
    /\ err' = IF cpc' = "raised" THEN "FileNotFoundError" ELSE "none"
    /\ UNCHANGED <<glyphExists, log, glyph, gw, gh, s, pos, fillVars>>

\* canvas = build_sandstone_background()
BuildBackground ==
    /\ cpc = "background"
    /\ log' = Append(log, "background")
    /\ cpc' = "load"
    /\ UNCHANGED <<glyphExists, err, glyph, gw, gh, s, pos, fillVars>>

\* glyph = Image.open(GLYPH_PATH).convert("RGBA")
LoadGlyph ==
    /\ cpc = "load"
    /\ glyph' \in GlyphSizes
    /\ log' = Append(log, "load")
    /\ cpc' = "cleanup"
    /\ UNCHANGED <<glyphExists, err, gw, gh, s, pos, fillVars>>

\* glyph = remove_outer_white_only(glyph): the same image object
Cleanup ==
    /\ cpc = "cleanup"
    /\ log' = Append(log, "cleanup")
    /\ cpc' = "crop"
    /\ UNCHANGED <<glyphExists, err, glyph, gw, gh, s, pos, fillVars>>

\* bbox = glyph.split()[-1].getbbox(); if bbox: glyph = glyph.crop(bbox)
Crop ==
    /\ cpc = "crop"
    /\ glyph' \in CropSizes(glyph)
    /\ log' = Append(log, "crop")
    /\ cpc' = "resize"
    /\ UNCHANGED <<glyphExists, err, gw, gh, s, pos, fillVars>>

\* gw, gh = glyph.size; s = ...; glyph = glyph.resize(...)
Resize ==
    /\ cpc = "resize"
    /\ gw' = glyph[1] /\ gh' = glyph[2]
    /\ s' = ScaleFactor(glyph[1], glyph[2])
    /\ glyph' = <<ResizeDim(glyph[1], s'), ResizeDim(glyph[2], s')>>
    /\ log' = Append(log, "resize")
    /\ cpc' = "paste"
    /\ UNCHANGED <<glyphExists, err, pos, fillVars>>

\* x = ...; y = ...; out = canvas.copy(); out.paste(glyph, (x, y), glyph)
Paste ==
    /\ cpc = "paste"
    /\ pos' = <<PasteOffset(W, glyph[1]), PasteOffset(H, glyph[2])>>
    /\ log' = Append(log, "paste")
    /\ cpc' = "save"
    /\ UNCHANGED <<glyphExists, err, glyph, gw, gh, s, fillVars>>

\* out.save(BASE_OUT)
Save ==
    /\ cpc = "save"
    /\ log' = Append(log, "save")
    /\ cpc' = "print"
    /\ UNCHANGED <<glyphExists, err, glyph, gw, gh, s, pos, fillVars>>

\* print("WROTE_BASE", BASE_OUT)
PrintMarker ==
    /\ cpc = "print"
    /\ log' = Append(log, "WROTE_BASE")
    /\ cpc' = "done"
    /\ UNCHANGED <<glyphExists, err, glyph, gw, gh, s, pos, fillVars>>

NextCompose ==
    \/ CheckGlyph \/ BuildBackground \/ LoadGlyph \/ Cleanup \/ Crop
    \/ Resize \/ Paste \/ Save \/ PrintMarker

SpecCompose == InitCompose /\ [][NextCompose]_vars

----------------------------------------------------------------------------
(* Claims about remove_outer_white_only, stated on the input image orig *)

\* the white predicate as the claims state it
ClaimWhite(p) == p[4] > 0 /\ p[1] >= 245 /\ p[2] >= 245 /\ p[3] >= 245

Pixels == Coords(w0, h0)

\* first/last row, first/last column
Border(c) == c[1] = 0 \/ c[1] = w0 - 1 \/ c[2] = 0 \/ c[2] = h0 - 1

\* up/down/left/right, no diagonals
Adjacent4(c, d) ==
    \/ c[1] = d[1] /\ (c[2] = d[2] + 1 \/ d[2] = c[2] + 1)
    \/ c[2] = d[2] /\ (c[1] = d[1] + 1 \/ d[1] = c[1] + 1)

RECURSIVE Grow(_, _)
Grow(img, S) ==
    LET T == S \cup {c \in Pixels :
                        ClaimWhite(img[c]) /\ \E d \in S : Adjacent4(c, d)}
    IN  IF T = S THEN S ELSE Grow(img, T)

\* the white pixels joined to a white border pixel by 4-connected white pixels
ConnectedToBorder(img) ==
    Grow(img, {c \in Pixels : Border(c) /\ ClaimWhite(img[c])})

\* C1: once the cleanup has returned, every border pixel that was white in
\* the input has alpha 0.
C1_BorderWhiteCleared ==
    pc = "done" =>
        \A c \in Pixels : Border(c) /\ ClaimWhite(orig[c]) => px[c][4] = 0

\* a first pass has returned on an image with a white pixel on the last row
\* that no other white pixel touches
C1_Witness ==
    /\ pc = "done" /\ pass = 1 /\ h0 >= 2
    /\ \E c \in Pixels :
          /\ c[2] = h0 - 1 /\ ClaimWhite(orig[c]) /\ px[c][4] = 0
          /\ \A d \in Pixels : Adjacent4(c, d) => ~ClaimWhite(orig[d])

\* C2: a white pixel with no 4-connected white path to a white border pixel
\* is never written: all four channels stay those of the input.
C2_EnclosedWhiteUntouched ==
    \A c \in Pixels :
        ClaimWhite(orig[c]) /\ px[c] # orig[c] => c \in ConnectedToBorder(orig)

\* the cleanup has returned, it erased a white border pixel, and a white
\* pixel diagonal to the erased one is enclosed and still as in the input
C2_Witness ==
    /\ pc = "done"
    /\ \E c \in Pixels :
          /\ ClaimWhite(orig[c]) /\ c \notin ConnectedToBorder(orig)
          /\ px[c] = orig[c] /\ px[c][4] > 0
          /\ \E d \in Pixels :
                /\ d[1] # c[1] /\ d[2] # c[2]
                /\ ClaimWhite(orig[d]) /\ px[d][4] = 0

NoWhite(img) == \A c \in Pixels : ~ClaimWhite(img[c])

\* C3: on an input without a white pixel the queue is never populated and
\* the image stays equal to the input, pixel for pixel.
C3_NoWhiteNoOp ==
    NoWhite(orig) =>
        /\ q = <<>>
        /\ \A c \in Pixels : enq[c] = 0 /\ px[c] = orig[c]

\* the cleanup has returned on a full-size image without a white pixel that
\* holds both a transparent and a dark pixel
C3_Witness ==
    /\ pc = "done" /\ pass = 1 /\ NoWhite(orig)
    /\ w0 = MaxSide /\ h0 >= 2
    /\ \E c, d \in Pixels : orig[c] = PClear /\ orig[d] = PDark
    /\ px = orig

\* C4: every pixel is enqueued and processed at most once, and the loop has
\* left the queue empty when the function returns.
C4_EnqueuedAtMostOnce ==
    /\ \A c \in Pixels : enq[c] <= 1 /\ proc[c] <= 1
    /\ pc = "done" => q = <<>>

\* C6: no pixel access lies outside 0 <= x < width, 0 <= y < height, for any
\* image size including the empty ones.
C6_AccessInBounds == ~oob /\ pc # "error"

\* C8: after the cleanup, colour is that of the input, alpha is the input's
\* or 0, and alpha went to 0 exactly on the white pixels 4-connected through
\* white pixels to a white border pixel.
C8_ExactlyBorderConnectedCleared ==
    pc = "done" =>
        \A c \in Pixels :
            /\ px[c][1] = orig[c][1] /\ px[c][2] = orig[c][2] /\ px[c][3] = orig[c][3]
            /\ px[c][4] \in {orig[c][4], 0}
            /\ (px[c][4] = 0 /\ orig[c][4] # 0) <=> c \in ConnectedToBorder(orig)

\* the cleanup has returned having erased an interior pixel, next to a
\* transparent pixel and a dark pixel that both stayed as they were
C8_Witness ==
    /\ pc = "done"
    /\ \E c \in Pixels :
          /\ ~Border(c) /\ orig[c][4] # 0 /\ px[c][4] = 0
          /\ \E d, f \in Pixels :
                /\ Adjacent4(c, d) /\ orig[d] = PClear /\ px[d] = PClear
                /\ Adjacent4(c, f) /\ orig[f] = PDark /\ px[f] = PDark

\* C10: a further pass over the output seeds nothing and changes no pixel,
\* since no border pixel of the output is white.
C10_Idempotent ==
    pass >= 2 =>
        /\ \A c \in Pixels : ~(Border(c) /\ ClaimWhite(prev[c]))
        /\ q = <<>>
        /\ px = prev

\* a second pass has returned on the output of a first pass that erased
\* pixels and left an enclosed white pixel, which is still opaque
C10_Witness ==
    /\ pc = "done" /\ pass = 2 /\ prev # orig /\ px = prev
    /\ \E c \in Pixels : ClaimWhite(px[c])

----------------------------------------------------------------------------
(* Claims about compose *)

\* C5: with the glyph file missing compose raises FileNotFoundError before
\* anything else: no background, load, cleanup, composition, output file or
\* WROTE_BASE line.
C5_MissingGlyphFailsFirst ==
    ~glyphExists =>
        /\ log = <<>>
        /\ cpc \in {"start", "raised"}
        /\ cpc = "raised" => err = "FileNotFoundError"

\* compose has raised on a missing glyph
C5_Witness ==
    cpc = "raised" /\ ~glyphExists /\ err = "FileNotFoundError" /\ log = <<>>

\* C7: a cropped glyph of 1 <= gw, gh < 902 is resized so that its larger
\* side is 901 or 902 and neither side is above 902 or below 1.
C7_ScaledToPaddedRegion ==
    (cpc \in {"paste", "save", "print", "done"} /\ 1 <= gw /\ gw < 902
        /\ 1 <= gh /\ gh < 902) =>
        /\ Max(glyph[1], glyph[2]) \in {901, 902}
        /\ 1 <= glyph[1] /\ glyph[1] <= 902
        /\ 1 <= glyph[2] /\ glyph[2] <= 902

\* a glyph wider than high has been resized and binary64 rounding left its
\* width one pixel short of 902
C7_Witness ==
    /\ cpc = "paste" /\ gw > gh /\ gh > 1
    /\ glyph[1] = 901 /\ glyph[2] < 901

\* C9: the paste position centres a resized glyph of 1..902 pixels a side:
\* opposite margins differ by at most one pixel and each is at least 61.
C9_GlyphCentred ==
    (cpc \in {"save", "print", "done"} /\ glyph[1] \in 1..902 /\ glyph[2] \in 1..902) =>
        LET right == 1024 - glyph[1] - pos[1]
            bottom == 1024 - glyph[2] - pos[2]
        IN  /\ pos[1] - right \in -1..1
            /\ pos[2] - bottom \in -1..1
            /\ pos[1] >= 61 /\ right >= 61
            /\ pos[2] >= 61 /\ bottom >= 61
            /\ pos[1] + glyph[1] <= 1024 /\ pos[2] + glyph[2] <= 1024

\* a glyph of odd width 901 and even height has been pasted: the left margin
\* is 61 and the right one 62
C9_Witness ==
    /\ cpc = "save" /\ glyph[1] = 901 /\ glyph[2] % 2 = 0 /\ glyph[2] < 500
    /\ pos[1] = 61 /\ 1024 - glyph[1] - pos[1] = 62

====
